---------------------------- MODULE Spec2Model ----------------------------
(***************************************************************************)
(* A state-machine model of examples/whitehat_crypto400/solve.py: main()   *)
(* drives a symbolic-execution engine to four successive addresses of the  *)
(* target binary, constrains eight key bytes to printable ASCII, asks the  *)
(* solver for the values of four byte pairs, and brute-forces the          *)
(* cartesian product by running the binary once per candidate.             *)
(*                                                                         *)
(* The engine, the solver and the target binary are the environment of     *)
(* the script.  What they hand back (successor paths, the solution set of  *)
(* the found state, the order of an enumeration, the text a child prints)  *)
(* is drawn from small sets; what the script does with it is translated    *)
(* from the source.  Strings are sequences of byte values.                 *)
(***************************************************************************)
EXTENDS Integers, Sequences, FiniteSets

\* ------------------------------------------------------------ bounds
\* Paths the path group holds at once (active and found together).
MaxPaths == 2
\* Distinct key values the found state's constraints admit.
MaxSols == 3

\* ------------------------------------------------- program constants
Find1 == 4200099        \* 0x4016A3
Find2 == 4200119        \* 0x4016B7
Find3 == 4200399        \* 0x4017CF
Find4 == 4200485        \* 0x401825
Avoid4017D6 == 4200406
Avoid401699 == 4200089
Avoid40167D == 4200061
Avoid401811 == 4200465
StrlenHook == 4200078   \* 0x40168e, an address that is neither found nor avoided
StartAddr == 4200624    \* 0x4018B0, the hooked __libc_start_main
KeyAddr == 7097120      \* 0x6C4B20
KeyLen == 8
PairLen == 2
PrintableLo == 33       \* 0x21
PrintableHi == 126      \* 0x7e
SolveCap == 65536

\* 'FLAG IS'
Marker == <<70, 76, 65, 71, 32, 73, 83>>
\* "./whitehat_crypto400" is kept as an opaque program name
Program == "./whitehat_crypto400"
\* main() falls off its end: Python's None
None == <<>>

\* ------------------------------------------------------ pure helpers
Min(a, b) == IF a <= b THEN a ELSE b

Range(s) == {s[k] : k \in 1..Len(s)}

\* ''.join(parts)
RECURSIVE Join(_)
Join(parts) ==
    IF parts = <<>> THEN <<>> ELSE Head(parts) \o Join(Tail(parts))

\* sub in s
Contains(sub, s) ==
    \E k \in 0..(Len(s) - Len(sub)) : SubSeq(s, k + 1, k + Len(sub)) = sub

\* str.split() splits on runs of these and drops empty pieces
IsSpace(c) == c \in {9, 10, 11, 12, 13, 32}

RECURSIVE SplitFrom(_, _, _)
SplitFrom(s, k, cur) ==
    IF k > Len(s)
    THEN IF cur = <<>> THEN <<>> ELSE <<cur>>
    ELSE IF IsSpace(s[k])
         THEN IF cur = <<>>
              THEN SplitFrom(s, k + 1, <<>>)
              ELSE <<cur>> \o SplitFrom(s, k + 1, <<>>)
         ELSE SplitFrom(s, k + 1, Append(cur, s[k]))

Split(s) == SplitFrom(s, 1, <<>>)

\* mutant: the tokens are not filtered by the guess
FilterTokens_NoFilter(g, out) == Split(out)

\* filter(lambda s: ''.join(guess) in s, stdout.split())
FilterTokens(g, out) == SelectSeq(Split(out), LAMBDA t : Contains(g, t))

\* mutant: zip(*lists) in place of itertools.product(*lists)
Product_Zip(lists) ==
    IF lists = <<>> THEN <<>>
    ELSE LET n == CHOOSE m \in 0..SolveCap :
                     /\ \A k \in 1..Len(lists) : m <= Len(lists[k])
                     /\ \E k \in 1..Len(lists) : m = Len(lists[k])
         IN  [r \in 1..n |-> [k \in 1..Len(lists) |-> lists[k][r]]]

\* itertools.product(*lists): the last list varies fastest
RECURSIVE Prepend(_, _)
Prepend(h, rest) ==
    IF rest = <<>> THEN <<>>
    ELSE << <<h>> \o Head(rest) >> \o Prepend(h, Tail(rest))

RECURSIVE ProductFrom(_, _)
RECURSIVE Product(_)
ProductFrom(hs, rest) ==
    IF hs = <<>> THEN <<>>
    ELSE Prepend(Head(hs), rest) \o ProductFrom(Tail(hs), rest)

Product(lists) ==
    IF lists = <<>> THEN << <<>> >>
    ELSE ProductFrom(Head(lists), Product(Tail(lists)))

\* s.memory.load(addr, size) evaluated in one solution v of the key bytes
Load(v, addr, size) == [j \in 1..size |-> v[addr - KeyAddr + j]]

\* the values an expression takes over the solutions of the state
Values(sols, addr, size) == {Load(v, addr, size) : v \in sols}

\* s.se.any_n_str(e, n): up to n distinct solutions, in the solver's order
any_n_str(vals, n) ==
    LET m == Min(n, Cardinality(vals))
    IN  {q \in [1..m -> vals] : \A a, b \in 1..m : a # b => q[a] # q[b]}

\* b >= 0x21, b <= 0x7e (unsigned comparisons of an 8-bit value)
Printable(b) == b >= PrintableLo /\ b <= PrintableHi

\* range(0, 8, 2)
PairOffsets == <<0, 2, 4, 6>>

\* find= and avoid= of the four explore calls
FindOf(stage) ==
    CASE stage = 1 -> Find1
      [] stage = 2 -> Find2
      [] stage = 3 -> Find3
      [] OTHER     -> Find4

AvoidOf(stage) ==
    CASE stage = 1 -> {}
      [] stage = 2 -> {Avoid4017D6, Avoid401699, Avoid40167D}
      [] stage = 3 -> {Avoid4017D6, Avoid401699, Avoid40167D}
      [] OTHER     -> {Avoid401811}

\* ------------------------------------------------ environment inputs
\* Addresses a stepped path may arrive at.
CodeAddrs ==
    {Find1, Find2, Find3, Find4, Avoid4017D6, Avoid401699, Avoid40167D,
     Avoid401811, StrlenHook}

\* Key values the found state's constraints may admit: printable ones that
\* differ in one pair or in two pairs at once, and ones with a byte just
\* outside the printable range (0x20, 0x7f).
KeyPool ==
    { <<33, 65, 66, 67, 68, 69, 126, 71>>,
      <<33, 65, 66, 72, 68, 69, 126, 71>>,
      <<73, 65, 66, 67, 74, 69, 126, 71>>,
      <<32, 65, 66, 67, 68, 69, 126, 71>>,
      <<33, 65, 66, 67, 68, 69, 126, 127>>,
      <<33, 65, 66, 67, 68, 69, 75, 71>> }

\* What a child may print for argument g.
Outputs(g) ==
    { <<78, 79>>,                                 \* "NO"
      Marker \o <<32, 120>> \o g,                 \* "FLAG IS x<g>"
      g \o <<10>> \o Marker \o <<9>> \o g \o <<121>>,  \* "<g>\nFLAG IS\t<g>y"
      Marker,                                     \* "FLAG IS"
      <<70, 76, 65, 71, 73, 83, 32>> \o g }       \* "FLAGIS <g>"

VARIABLES
    pc,               \* the statement main() is at
    faultLine,        \* source line of the unhandled exception, 0 if none
    active,           \* pg.active: addresses of the active paths
    found,            \* pg.found, in order
    picked,           \* key values satisfying the found state as explore left it
    sols,             \* key values satisfying the constraints of state s
    i,                \* loop variable of the constraint loop
    possible_values,  \* the list built at line 72
    possibilities,    \* tuple(itertools.product(*possible_values))
    printed,          \* the count printed at line 77, -1 before
    idx,              \* number of candidates the for loop has taken
    guess,            \* the current candidate
    children,         \* child processes not yet reaped
    spawned,          \* argument vectors of all Popen calls, in order
    stdout,           \* what communicate() returned last
    marks,            \* per finished child: did line 80 see the marker
    result            \* main()'s return value

vars ==
    <<pc, faultLine, active, found, picked, sols, i, possible_values,
      possibilities, printed, idx, guess, children, spawned, stdout, marks,
      result>>

exploreVars == <<active, found>>
solveVars == <<picked, sols, i, possible_values, possibilities, printed>>
loopVars == <<idx, guess, children, spawned, stdout, marks, result>>

Init ==
    /\ pc = "start"
    /\ faultLine = 0
    /\ active = {}
    /\ found = <<>>
    /\ picked = {}
    /\ sols = {}
    /\ i = 0
    /\ possible_values = <<>>
    /\ possibilities = <<>>
    /\ printed = -1
    /\ idx = 0
    /\ guess = <<>>
    /\ children = {}
    /\ spawned = <<>>
    /\ stdout = <<>>
    /\ marks = <<>>
    /\ result = None

StageOf(p) ==
    CASE p = "explore1" -> 1
      [] p = "explore2" -> 2
      [] p = "explore3" -> 3
      [] p = "explore4" -> 4
      [] OTHER          -> 0

PcOfStage(k) ==
    CASE k = 1 -> "explore1"
      [] k = 2 -> "explore2"
      [] k = 3 -> "explore3"
      [] OTHER -> "explore4"

\* lines 20-47: project, hooks, entry state, path group with one active path
Setup ==
    /\ pc = "start"
    /\ pc' = "explore1"
    /\ active' = {StartAddr}
    /\ UNCHANGED <<faultLine, found>>
    /\ UNCHANGED solveVars
    /\ UNCHANGED loopVars

\* one round of pg.explore(find=, avoid=): a path is stepped, successors at
\* the find address go to found, successors at an avoid address are
\* discarded (they leave active), the others stay active
ExploreStep ==
    /\ StageOf(pc) # 0
    /\ found = <<>>
    /\ active # {}
    /\ \E p \in active, succs \in SUBSET CodeAddrs :
          LET stage == StageOf(pc)
              hit   == succs \cap {FindOf(stage)}
              bad   == (succs \ hit) \cap AvoidOf(stage)
              keep  == (active \ {p}) \cup (succs \ (hit \cup bad))
          IN  /\ Cardinality(succs) <= 2
              /\ Cardinality(keep) + Cardinality(hit) <= MaxPaths
              /\ found' = IF hit = {} THEN <<>> ELSE <<FindOf(stage)>>
              /\ active' = keep
    /\ UNCHANGED <<pc, faultLine>>
    /\ UNCHANGED solveVars
    /\ UNCHANGED loopVars

\* explore returns once a path is found or none is active; stages 1-3 then
\* unstash(from_stash='found', to_stash='active')
ExploreDone ==
    /\ StageOf(pc) # 0
    /\ (found # <<>> \/ active = {})
    /\ IF StageOf(pc) < 4
       THEN /\ pc' = PcOfStage(StageOf(pc) + 1)
            /\ active' = active \cup Range(found)
            /\ found' = <<>>
       ELSE /\ pc' = "pick"
            /\ UNCHANGED <<active, found>>
    /\ UNCHANGED faultLine
    /\ UNCHANGED solveVars
    /\ UNCHANGED loopVars

\* mutant: no IndexError on an empty found stash, the script carries on
PickFound_NoCheck ==
    /\ pc = "pick"
    /\ \E S \in SUBSET KeyPool :
          /\ S # {}
          /\ Cardinality(S) <= MaxSols
          /\ picked' = S
          /\ sols' = S
    /\ pc' = "constrain"
    /\ active' = {}
    /\ found' = <<>>
    /\ UNCHANGED <<faultLine, i, possible_values, possibilities, printed>>
    /\ UNCHANGED <<idx, guess, children, spawned, stdout, marks, result>>

\* line 61: s = pg.found[0].state; IndexError when nothing was found.  The
\* found state is satisfiable; which key values satisfy it is the engine's
\* answer.  pg is not referenced after this line and is forgotten here.
PickFound ==
    /\ pc = "pick"
    /\ IF found = <<>>
       THEN /\ pc' = "fault"
            /\ faultLine' = 61
            /\ UNCHANGED <<active, found, picked, sols>>
       ELSE /\ \E S \in SUBSET KeyPool :
                  /\ S # {}
                  /\ Cardinality(S) <= MaxSols
                  /\ picked' = S
                  /\ sols' = S
            /\ pc' = "constrain"
            /\ active' = {}
            /\ found' = <<>>
            /\ UNCHANGED faultLine
    /\ UNCHANGED <<i, possible_values, possibilities, printed>>
    /\ UNCHANGED loopVars

\* range(8) of line 64
ConstrainCount == KeyLen

\* mutant: the upper bound b <= 0x7e is left out
add_constraints_NoUpper(S, k) ==
    {v \in S : Load(v, KeyAddr + k, 1)[1] >= PrintableLo}

\* lines 65-66: the solutions that keep byte KeyAddr + k printable
add_constraints(S, k) == {v \in S : Printable(Load(v, KeyAddr + k, 1)[1])}

\* lines 64-66, one iteration
Constrain ==
    /\ pc = "constrain"
    /\ IF i < ConstrainCount
       THEN /\ sols' = add_constraints(sols, i)
            /\ i' = i + 1
            /\ pc' = pc
       ELSE /\ pc' = "solve"
            /\ UNCHANGED <<sols, i>>
    /\ UNCHANGED <<faultLine, picked, possible_values, possibilities, printed>>
    /\ UNCHANGED exploreVars
    /\ UNCHANGED loopVars

\* mutant: one byte is loaded in place of two
PairValues_OneByte(S, k) == Values(S, KeyAddr + PairOffsets[k], 1)

\* the expression enumerated for the k-th element of line 72
PairValues(S, k) == Values(S, KeyAddr + PairOffsets[k], PairLen)

\* mutant: a single solution is asked for
Enumerate_One(S, k) == any_n_str(Values(S, KeyAddr + PairOffsets[k], PairLen), 1)

\* the enumerations the solver may return for it
Enumerate(S, k) == any_n_str(PairValues(S, k), SolveCap)

\* line 72, one element of the list comprehension.  On an unsatisfiable
\* state the solver either raises or returns no value.
Solve ==
    /\ pc = "solve"
    /\ LET k == Len(possible_values) + 1
       IN  IF k > Len(PairOffsets)
           THEN /\ pc' = "product"
                /\ UNCHANGED <<faultLine, possible_values>>
           ELSE \/ /\ sols = {}
                   /\ pc' = "fault"
                   /\ faultLine' = 72
                   /\ UNCHANGED possible_values
                \/ /\ \E q \in Enumerate(sols, k) :
                         possible_values' = Append(possible_values, q)
                   /\ UNCHANGED <<pc, faultLine>>
    /\ UNCHANGED <<picked, sols, i, possibilities, printed>>
    /\ UNCHANGED exploreVars
    /\ UNCHANGED loopVars

\* line 75
MakeProduct ==
    /\ pc = "product"
    /\ possibilities' = Product(possible_values)
    /\ pc' = "print"
    /\ UNCHANGED <<faultLine, picked, sols, i, possible_values, printed>>
    /\ UNCHANGED exploreVars
    /\ UNCHANGED loopVars

\* lines 76-77: possibilities[0] raises IndexError on an empty tuple
PrintGuess ==
    /\ pc = "print"
    /\ IF possibilities = <<>>
       THEN /\ pc' = "fault"
            /\ faultLine' = 76
            /\ UNCHANGED printed
       ELSE /\ printed' = Len(possibilities)
            /\ pc' = "for"
            /\ UNCHANGED faultLine
    /\ UNCHANGED <<picked, sols, i, possible_values, possibilities>>
    /\ UNCHANGED exploreVars
    /\ UNCHANGED loopVars

\* mutant: the loop stops one candidate short
ForNext_StopsEarly ==
    /\ pc = "for"
    /\ IF idx < Len(possibilities) - 1
       THEN /\ guess' = possibilities[idx + 1]
            /\ idx' = idx + 1
            /\ pc' = "popen"
            /\ UNCHANGED result
       ELSE /\ pc' = "returned"
            /\ result' = <<>>
            /\ UNCHANGED <<idx, guess>>
    /\ UNCHANGED <<faultLine, children, spawned, stdout, marks>>
    /\ UNCHANGED <<active, found>>
    /\ UNCHANGED <<picked, sols, i, possible_values, possibilities, printed>>

\* line 78: the for loop takes the next candidate, or main() falls off its
\* end and returns None
ForNext ==
    /\ pc = "for"
    /\ IF idx < Len(possibilities)
       THEN /\ guess' = possibilities[idx + 1]
            /\ idx' = idx + 1
            /\ pc' = "popen"
            /\ UNCHANGED result
       ELSE /\ pc' = "returned"
            /\ result' = None
            /\ UNCHANGED <<idx, guess>>
    /\ UNCHANGED <<faultLine, children, spawned, stdout, marks>>
    /\ UNCHANGED exploreVars
    /\ UNCHANGED solveVars

\* ["./whitehat_crypto400", ''.join(guess)]
Argv(g) == <<Program, Join(g)>>

\* line 79, subprocess.Popen(...): a child is started with stdout piped and
\* stderr joined to it, or the call raises (OSError) and nothing catches it
Popen ==
    /\ pc = "popen"
    /\ \/ /\ children' =
               children \cup {[id |-> Len(spawned) + 1, arg |-> Argv(guess)[2],
                               status |-> "running", out |-> <<>>]}
          /\ spawned' = Append(spawned, Argv(guess))
          /\ pc' = "communicate"
          /\ UNCHANGED faultLine
       \/ /\ pc' = "fault"
          /\ faultLine' = 79
          /\ UNCHANGED <<children, spawned>>
    /\ UNCHANGED <<idx, guess, stdout, marks, result>>
    /\ UNCHANGED exploreVars
    /\ UNCHANGED solveVars

\* the target binary runs, writes its output and exits
ChildExit ==
    /\ \E c \in children :
          /\ c.status = "running"
          /\ \E o \in Outputs(c.arg) :
                children' =
                    (children \ {c}) \cup {[c EXCEPT !.status = "exited", !.out = o]}
    /\ UNCHANGED <<pc, faultLine, idx, guess, spawned, stdout, marks, result>>
    /\ UNCHANGED exploreVars
    /\ UNCHANGED solveVars

\* mutant: the output is taken without waiting for the child to exit
Communicate_NoWait ==
    /\ pc = "communicate"
    /\ \E c \in children :
          /\ c.id = Len(spawned)
          /\ stdout' = c.out
          /\ marks' = Append(marks, Contains(Marker, c.out))
    /\ pc' = "test"
    /\ UNCHANGED <<faultLine, idx, guess, children, spawned, result>>
    /\ UNCHANGED <<active, found>>
    /\ UNCHANGED <<picked, sols, i, possible_values, possibilities, printed>>

\* line 79, .communicate(): returns once the child just started has exited
\* and its output is read to the end; the child is reaped
Communicate ==
    /\ pc = "communicate"
    /\ \E c \in children :
          /\ c.id = Len(spawned)
          /\ c.status = "exited"
          /\ stdout' = c.out
          /\ marks' = Append(marks, Contains(Marker, c.out))
          /\ children' = children \ {c}
    /\ pc' = "test"
    /\ UNCHANGED <<faultLine, idx, guess, spawned, result>>
    /\ UNCHANGED exploreVars
    /\ UNCHANGED solveVars

\* 'FLAG IS' in stdout
Success(out) == Contains(Marker, out)

\* lines 80-81: on the marker, return the first token holding the guess;
\* [0] of an empty list raises IndexError
Test ==
    /\ pc = "test"
    /\ IF Success(stdout)
       THEN LET tokens == FilterTokens(Join(guess), stdout)
            IN  IF tokens = <<>>
                THEN /\ pc' = "fault"
                     /\ faultLine' = 81
                     /\ UNCHANGED result
                ELSE /\ pc' = "returned"
                     /\ result' = tokens[1]
                     /\ UNCHANGED faultLine
       ELSE /\ pc' = "for"
            /\ UNCHANGED <<faultLine, result>>
    /\ UNCHANGED <<idx, guess, children, spawned, stdout, marks>>
    /\ UNCHANGED exploreVars
    /\ UNCHANGED solveVars

Next ==
    \/ Setup
    \/ ExploreStep
    \/ ExploreDone
    \/ PickFound
    \/ Constrain
    \/ Solve
    \/ MakeProduct
    \/ PrintGuess
    \/ ForNext
    \/ Popen
    \/ ChildExit
    \/ Communicate
    \/ Test

Spec == Init /\ [][Next]_vars

\* ------------------------------------------------------------ phases
Faulted(lines) == pc = "fault" /\ faultLine \in lines

\* the constraint loop of lines 64-66 has run to its end
AfterConstrain ==
    \/ pc \in {"solve", "product", "print", "for", "popen", "communicate",
               "test", "returned"}
    \/ Faulted({72, 76, 79, 81})

\* the list of line 72 is complete
AfterSolve ==
    \/ pc \in {"product", "print", "for", "popen", "communicate", "test",
               "returned"}
    \/ Faulted({76, 79, 81})

\* line 75 has run
AfterProduct ==
    \/ pc \in {"print", "for", "popen", "communicate", "test", "returned"}
    \/ Faulted({76, 79, 81})

\* the for loop of line 78 has been entered
InLoop ==
    \/ pc \in {"for", "popen", "communicate", "test", "returned"}
    \/ Faulted({79, 81})

Bytes(str) == Range(str)

\* ------------------------------------------------------------ claims

\* C2: every child is started as ./whitehat_crypto400 with exactly one
\* argument, the concatenation of the four 2-byte parts of its candidate; the
\* loop goes on to the next candidate only when the output read lacks
\* 'FLAG IS' and leaves through line 81 only when it holds it; and a value
\* returned from line 81 is the first whitespace-separated token of that
\* output containing the candidate (line 81 faults only when no token does).
C2_SpawnAndReturn ==
    /\ \A k \in 1..Len(spawned) :
          LET c == possibilities[k]
          IN  /\ Len(c) = 4
              /\ \A j \in 1..4 : Len(c[j]) = 2
              /\ spawned[k] = <<"./whitehat_crypto400", c[1] \o c[2] \o c[3] \o c[4]>>
    /\ (pc = "for" /\ idx > 0) => ~Contains(<<70, 76, 65, 71, 32, 73, 83>>, stdout)
    /\ ((pc = "returned" /\ result # None) \/ Faulted({81}))
          => Contains(<<70, 76, 65, 71, 32, 73, 83>>, stdout)
    /\ (pc = "returned" /\ result # None) =>
          LET g == spawned[Len(spawned)][2]
              t == Split(stdout)
          IN  \E k \in 1..Len(t) :
                 /\ result = t[k]
                 /\ Contains(g, t[k])
                 /\ \A j \in 1..(k - 1) : ~Contains(g, t[j])
    /\ Faulted({81}) =>
          \A k \in 1..Len(Split(stdout)) :
             ~Contains(spawned[Len(spawned)][2], Split(stdout)[k])

\* C2 witness: main() has returned a token that is not the first token of the
\* output.
C2_Witness ==
    /\ pc = "returned"
    /\ result # None
    /\ Len(Split(stdout)) >= 3
    /\ result # Split(stdout)[1]

C4_OneChildAtATime ==
    /\ Cardinality(children) <= 1
    /\ (pc = "popen" => children = {})
    /\ Len(marks) = Len(spawned) - Cardinality(children)

\* C4 witness: a second child is alive.
C4_Witness ==
    /\ Len(spawned) >= 2
    /\ children # {}

\* C5: possible_values holds exactly four sets, the k-th being values of the
\* two bytes at 0x6C4B20 + 2(k-1) under the constraints of s; every entry is
\* a 2-byte string, no entry repeats, and no set exceeds 65536 entries.
C5_FourPairSets ==
    AfterSolve =>
       /\ Len(possible_values) = 4
       /\ \A k \in 1..4 :
             /\ Len(possible_values[k]) <= 65536
             /\ Cardinality(Range(possible_values[k])) = Len(possible_values[k])
             /\ \A e \in Range(possible_values[k]) :
                   /\ Len(e) = 2
                   /\ \E v \in sols : e = <<v[2 * k - 1], v[2 * k]>>

\* C5 witness: the list is complete and one of its sets has two entries.
C5_Witness ==
    /\ pc = "product"
    /\ \E k \in 1..4 : Len(possible_values[k]) >= 2

\* C6: possibilities is the cartesian product of the four sets: each entry
\* takes its k-th part from set k and joins to 8 bytes, every combination
\* occurs exactly once, and the length (also the count printed) is the
\* product of the four sizes; the candidates run are taken from it in order.
C6_CartesianProduct ==
    AfterProduct =>
       /\ \A n \in 1..Len(possibilities) :
             /\ Len(possibilities[n]) = 4
             /\ \A k \in 1..4 : possibilities[n][k] \in Range(possible_values[k])
             /\ Len(Join(possibilities[n])) = 8
       /\ \A a \in Range(possible_values[1]), b \in Range(possible_values[2]),
             c \in Range(possible_values[3]), d \in Range(possible_values[4]) :
             Cardinality({n \in 1..Len(possibilities) :
                             possibilities[n] = <<a, b, c, d>>}) = 1
       /\ Len(possibilities) =
             Len(possible_values[1]) * Len(possible_values[2])
                * Len(possible_values[3]) * Len(possible_values[4])
       /\ (printed >= 0 => printed = Len(possibilities))
       /\ \A n \in 1..Len(spawned) : spawned[n][2] = Join(possibilities[n])

\* C6 witness: the loop starts on a product of two sets of two entries.
C6_Witness ==
    /\ pc = "for"
    /\ Len(possibilities) >= 4
    /\ \E j, k \in 1..4 :
          j # k /\ Len(possible_values[j]) >= 2 /\ Len(possible_values[k]) >= 2

\* C7: once the eight constraints are added, every byte of every solution of
\* s, of every enumerated 2-byte value and of every argument passed to the
\* target binary lies in 0x21..0x7e.
C7_PrintableBytes ==
    AfterConstrain =>
       /\ \A v \in sols : \A b \in Bytes(v) : b >= 33 /\ b <= 126
       /\ \A k \in 1..Len(possible_values) :
             \A e \in Range(possible_values[k]) :
                \A b \in Bytes(e) : b >= 33 /\ b <= 126
       /\ \A n \in 1..Len(spawned) :
             /\ Len(spawned[n][2]) = 8
             /\ \A b \in Bytes(spawned[n][2]) : b >= 33 /\ b <= 126

\* C7 witness: the found state admitted a key with an unprintable byte, and
\* a candidate has been run.
C7_Witness ==
    /\ spawned # <<>>
    /\ \E v \in picked : \E b \in Bytes(v) : b < 33 \/ b > 126

\* C9: when the found stash is empty at line 61 the script faults there:
\* no constraint is added, nothing is enumerated, no child is started and
\* main() returns nothing; a faulted script takes no further step.
C9_FaultOnEmptyFound ==
    /\ [](faultLine = 61 =>
            /\ pc = "fault"
            /\ sols = {}
            /\ i = 0
            /\ possible_values = <<>>
            /\ possibilities = <<>>
            /\ spawned = <<>>
            /\ children = {}
            /\ result = None)
    /\ [][/\ (pc = "pick" /\ found = <<>>) => (pc' = "fault" /\ faultLine' = 61)
          /\ pc = "fault" => pc' = "fault"]_vars

\* C9 witness: the fourth explore ended with nothing found and line 61
\* faulted.
C9_Witness ==
    /\ pc = "fault"
    /\ faultLine = 61
    /\ found = <<>>

\* C10: no set being cut at the cap of 65536, every 8-byte key satisfying
\* the constraints of s is the join of an entry of possibilities, and when
\* the loop ends without success every such key has been run.
C10_ProductCoversSolutions ==
    (AfterProduct
       /\ \A k \in 1..4 :
             Cardinality({<<v[2 * k - 1], v[2 * k]>> : v \in sols}) <= 65536)
       => /\ \A v \in sols :
                \E n \in 1..Len(possibilities) : Join(possibilities[n]) = v
          /\ (pc = "returned" /\ result = None) =>
                \A v \in sols : \E n \in 1..Len(spawned) : spawned[n][2] = v

\* C10 witness: the loop ran to its end over a product larger than the set
\* of solutions it covers.
C10_Witness ==
    /\ pc = "returned"
    /\ result = None
    /\ Cardinality(sols) >= 2
    /\ Len(possibilities) > Cardinality(sols)
=============================================================================
